---- MODULE Spec2Model ----
(***************************************************************************)
(* Model of the meshinfo ingestion-and-projection pipeline:                *)
(*   src/mqtt.py                  MQTT.connect, the ingestion loop         *)
(*   src/data_renderer.py         DataRenderer, the snapshot exporter      *)
(*   src/static_html_renderer.py  StaticHTMLRenderer, the view projector   *)
(*                                                                         *)
(* The specifications share the variables:                                 *)
(*   Spec / FairSpec   the ingestion loop (FairSpec adds the fairness of   *)
(*                     the asyncio scheduler)                              *)
(*   ExportSpec        one pass of DataRenderer._render                    *)
(*   RenderSpec        one pass of StaticHTMLRenderer._render              *)
(*   ViewSpec          the view models the projector builds from a Store   *)
(*   PublishSpec       the ingestion loop with the callers of publish      *)
(*   ConcurrentSpec    the ingestion loop with a pass of the projector on  *)
(*                     its worker thread                                   *)
(***************************************************************************)
EXTENDS Integers, Sequences, FiniteSets, TLC

(***************************************************************************)
(* Bounds of the model                                                     *)
(***************************************************************************)
\* messages the broker stream yields in one behaviour
MaxMsgs == 3
\* successful broker connections in one behaviour
MaxSessions == 2
\* readings of the clock
MaxClock == 2
\* nodes in the Store
MaxNodes == 2
\* chat messages on channel "0"
MaxChat == 1
\* passes of DataRenderer._render in one behaviour
MaxPasses == 2
\* template and file system failures in one pass of StaticHTMLRenderer._render
MaxFaults == 2
\* passes of DataRenderer._render that raise in one behaviour
MaxExportFaults == 1

(***************************************************************************)
(* Program constants                                                       *)
(***************************************************************************)
\* asyncio.sleep(5) in the except branch of MQTT.connect
BACKOFF == 5
\* exit(1) when no topic is configured
EXIT_NO_TOPICS == 1
\* len(id) != 8 in DataRenderer._render
ID_LEN == 8

VARIABLES
  \* ---- src/mqtt.py ----
  cfgTopics,          \* config["broker"]["topics"]: [kind, items]
  cfgTopic,           \* config["broker"]["topic"]:  [kind]
  mpc,                \* position of the MQTT.connect() task
  session,            \* number of broker connections made so far
  subIdx,             \* topics of broker.topics subscribed so far in the for loop
  subs,               \* topics the current client is subscribed to
  timer,              \* time units left of the pending asyncio.sleep
  now,                \* the clock (datetime.now / time.monotonic)
  mqtt_connect_time,  \* data.mqtt_connect_time
  nYielded,           \* messages yielded by client.messages so far
  cur,                \* the msg bound by the async for
  inHandler,          \* ids of the messages handle_packet is running for
  handled,            \* messages handed to handler.handle_packet, in order
  mqtt_messages,      \* the Store log the handler appends to
  exitCode,           \* status of the process once it has exited, else -1
  lastConnect,        \* the clock when the latest connection was made (history)
  \* ---- the Store (self.data) ----
  nodes,              \* data.nodes: a dict, here its items in insertion order
  chat,               \* data.chat['channels']: items (channel, messages)
  telemetry,          \* data.telemetry
  traceroutes,        \* data.traceroutes
  messages,           \* data.messages
  \* ---- src/data_renderer.py ----
  epc,                \* position of DataRenderer._render / save_file
  efile,              \* index in ExportFiles of the file being saved
  enodes,             \* the local dict `nodes` built by _render
  ewritten,           \* chunks json.dump has written to the .swp file
  eerror,             \* the call of this pass that raised, else "none"
  final,              \* the files at the final paths: name -> [exists, content]
  swp,                \* the files at the .swp paths:  name -> [exists, content]
  epass,              \* passes of _render started so far
  prevFinal,          \* the final file as it was when save_file was entered
  lastDump,           \* per file, the content its last completed save wrote
  lastData,           \* per file, the data that save was given
  efaults,            \* the passes of the exporter that have raised
  \* ---- src/static_html_renderer.py ----
  cfgServerNode,      \* config['server']['node_id']
  rpc,                \* position of StaticHTMLRenderer._render
  rb,                 \* index in Builders of the render method in turn
  rnodeIdx,           \* nodes render_nodes_each has gone through
  rinvoked,           \* the render methods called in this pass, in order
  rerrors,            \* the render methods whose call raised, in order
  rlogged,            \* the render methods named in logging.error lines
  pages,              \* the static pages in the output directory
  nodePages,          \* ids of the node_<id>.html pages in the output directory
  rfaults,            \* template and file system failures of this pass
  riterUsed,          \* size of data.nodes when render_nodes_each began to iterate
  \* ---- the view models and the outbound side channel ----
  view,               \* the keyword arguments a render method hands to its template
  pub                 \* the call of MQTT.publish in progress, or its outcome

mqttVars == <<cfgTopics, cfgTopic, mpc, session, subIdx, subs, timer, now,
              mqtt_connect_time, nYielded, cur, inHandler, handled,
              mqtt_messages, exitCode, lastConnect>>

storeVars == <<nodes, chat, telemetry, traceroutes, messages>>

exportVars == <<epc, efile, enodes, ewritten, eerror, final, swp, epass, prevFinal,
                lastDump, lastData, efaults>>

renderVars == <<cfgServerNode, rpc, rb, rnodeIdx, rinvoked, rerrors, rlogged,
                pages, nodePages, rfaults, riterUsed>>

viewVars == <<view>>

pubVars == <<pub>>

nonMqttVars == <<storeVars, exportVars, renderVars, viewVars, pubVars>>

vars == <<mqttVars, storeVars, exportVars, renderVars, viewVars, pubVars>>

Unset == -1
NoMsg == [id |-> 0, session |-> 0, timestamp |-> Unset, decodes |-> TRUE]

(***************************************************************************)
(* Configuration values of broker.topics and broker.topic                  *)
(***************************************************************************)
TopicsValues ==
  { [kind |-> "absent", items |-> <<>>],
    [kind |-> "none",   items |-> <<>>],
    [kind |-> "other",  items |-> <<>>],          \* present, not a list
    [kind |-> "list",   items |-> <<>>],
    [kind |-> "list",   items |-> <<"t1">>],
    [kind |-> "list",   items |-> <<"t1", "t2">>] }

TopicValues ==
  { [kind |-> "absent"], [kind |-> "none"],
    [kind |-> "other"],                            \* present, not a str
    [kind |-> "str"] }

\* mqtt.py:64  "topics" in broker and topics is not None and isinstance(list)
TopicsIsList == cfgTopics.kind = "list"
\* mqtt.py:67  "topic" in broker and topic is not None and isinstance(str)
TopicIsStr == cfgTopic.kind = "str"

InitMqtt ==
  /\ cfgTopics \in TopicsValues
  /\ cfgTopic \in TopicValues
  /\ mpc = "start"
  /\ session = 0
  /\ subIdx = 0
  /\ subs = <<>>
  /\ timer = 0
  /\ now = 0
  /\ mqtt_connect_time = Unset
  /\ nYielded = 0
  /\ cur = NoMsg
  /\ inHandler = {}
  /\ handled = <<>>
  /\ mqtt_messages = <<>>
  /\ exitCode = -1
  /\ lastConnect = Unset

(***************************************************************************)
(* MQTT.connect (src/mqtt.py:46-84) and MQTT.process_mqtt_msg (86-88)      *)
(***************************************************************************)
\* the clock after one more time unit, capped by the model's bound
ClockAfterUnit == IF now < MaxClock THEN now + 1 ELSE now

\* mutant of OnMqttError: a backoff that grows with the connections made
OnMqttError_Growing ==
  /\ mpc' = "backoff"
  /\ timer' = BACKOFF * (session + 1)
  /\ subs' = <<>>
  /\ subIdx' = 0

\* except aiomqtt.MqttError: log, then await asyncio.sleep(5); leaving the
\* async with block closes the client and with it its subscriptions
OnMqttError ==
  /\ mpc' = "backoff"
  /\ timer' = BACKOFF
  /\ subs' = <<>>
  /\ subIdx' = 0

\* await self.handler.start()
HandlerStart ==
  /\ mpc = "start"
  /\ mpc' = "connect"
  /\ UNCHANGED nonMqttVars
  /\ UNCHANGED <<cfgTopics, cfgTopic, lastConnect, session, subIdx, subs, timer, now,
                 mqtt_connect_time, nYielded, cur, inHandler, handled,
                 mqtt_messages, exitCode>>

\* async with aiomqtt.Client(...) as client: the connection is made
ConnectOk ==
  /\ mpc = "connect"
  /\ session < MaxSessions
  /\ session' = session + 1
  /\ subs' = <<>>
  /\ subIdx' = 0
  /\ mpc' = "subscribe"
  /\ UNCHANGED nonMqttVars
  /\ lastConnect' = now
  /\ UNCHANGED <<cfgTopics, cfgTopic, timer, now, mqtt_connect_time,
                 nYielded, cur, inHandler, handled, mqtt_messages, exitCode>>

\* async with aiomqtt.Client(...): the connection attempt raises MqttError
ConnectFail ==
  /\ mpc = "connect"
  /\ OnMqttError
  /\ UNCHANGED nonMqttVars
  /\ UNCHANGED <<cfgTopics, cfgTopic, lastConnect, session, now, mqtt_connect_time,
                 nYielded, cur, inHandler, handled, mqtt_messages, exitCode>>

\* for topic in broker.topics: await client.subscribe(topic)
SubscribeList ==
  /\ mpc = "subscribe"
  /\ TopicsIsList
  /\ subIdx < Len(cfgTopics.items)
  /\ subs' = Append(subs, cfgTopics.items[subIdx + 1])
  /\ subIdx' = subIdx + 1
  /\ UNCHANGED nonMqttVars
  /\ UNCHANGED <<cfgTopics, cfgTopic, lastConnect, mpc, session, timer, now,
                 mqtt_connect_time, nYielded, cur, inHandler, handled,
                 mqtt_messages, exitCode>>

\* the for loop over broker.topics is exhausted
SubscribeListDone ==
  /\ mpc = "subscribe"
  /\ TopicsIsList
  /\ subIdx = Len(cfgTopics.items)
  /\ mpc' = "set_time"
  /\ UNCHANGED nonMqttVars
  /\ UNCHANGED <<cfgTopics, cfgTopic, lastConnect, session, subIdx, subs, timer, now,
                 mqtt_connect_time, nYielded, cur, inHandler, handled,
                 mqtt_messages, exitCode>>

\* elif broker.topic is a str: await client.subscribe(broker.topic)
SubscribeSingle ==
  /\ mpc = "subscribe"
  /\ ~TopicsIsList
  /\ TopicIsStr
  /\ subs' = <<"topic">>
  /\ mpc' = "set_time"
  /\ UNCHANGED nonMqttVars
  /\ UNCHANGED <<cfgTopics, cfgTopic, lastConnect, session, subIdx, timer, now,
                 mqtt_connect_time, nYielded, cur, inHandler, handled,
                 mqtt_messages, exitCode>>

\* a client.subscribe call raises MqttError
SubscribeError ==
  /\ mpc = "subscribe"
  /\ \/ TopicsIsList /\ subIdx < Len(cfgTopics.items)
     \/ ~TopicsIsList /\ TopicIsStr
  /\ OnMqttError
  /\ UNCHANGED nonMqttVars
  /\ UNCHANGED <<cfgTopics, cfgTopic, lastConnect, session, now, mqtt_connect_time,
                 nYielded, cur, inHandler, handled, mqtt_messages, exitCode>>

\* else: logging.error(...); exit(1). SystemExit is no MqttError: it leaves
\* the while loop and the task
NoTopics ==
  /\ mpc = "subscribe"
  /\ ~TopicsIsList
  /\ ~TopicIsStr
  /\ mpc' = "exited"
  /\ exitCode' = EXIT_NO_TOPICS
  /\ subs' = <<>>
  /\ UNCHANGED nonMqttVars
  /\ UNCHANGED <<cfgTopics, cfgTopic, lastConnect, session, subIdx, timer, now,
                 mqtt_connect_time, nYielded, cur, inHandler, handled,
                 mqtt_messages>>

\* self.data.mqtt_connect_time = datetime.datetime.now(...)
SetConnectTime ==
  /\ mpc = "set_time"
  /\ mqtt_connect_time' = now
  /\ mpc' = "await_msg"
  /\ UNCHANGED nonMqttVars
  /\ UNCHANGED <<cfgTopics, cfgTopic, lastConnect, session, subIdx, subs, timer, now,
                 nYielded, cur, inHandler, handled, mqtt_messages, exitCode>>

\* mutant of StreamReady: messages are dispatched as concurrent tasks, the
\* next one is taken while handle_packet still runs
StreamReady_Concurrent == mpc \in {"await_msg", "handle"}

\* the async for takes the next message only where the task awaits
\* client.messages
StreamReady == mpc = "await_msg"

\* async for msg in client.messages: the stream yields a message; whether
\* the decoder accepts its payload is the broker's choice
Yield ==
  /\ StreamReady
  /\ nYielded < MaxMsgs
  /\ \E d \in BOOLEAN :
       cur' = [id |-> nYielded + 1, session |-> session,
               timestamp |-> Unset, decodes |-> d]
  /\ nYielded' = nYielded + 1
  /\ mpc' = "stamp"
  /\ UNCHANGED nonMqttVars
  /\ UNCHANGED <<cfgTopics, cfgTopic, lastConnect, session, subIdx, subs, timer, now,
                 mqtt_connect_time, inHandler, handled, mqtt_messages,
                 exitCode>>

\* mutant of StreamError: the except branch dispatches the message in hand
\* again instead of only backing off
StreamError_Replay ==
  /\ mpc = "await_msg"
  /\ IF cur.id > 0
       THEN mpc' = "parse" /\ UNCHANGED <<timer, subs, subIdx>>
       ELSE OnMqttError
  /\ UNCHANGED nonMqttVars
  /\ UNCHANGED <<cfgTopics, cfgTopic, lastConnect, session, now, mqtt_connect_time,
                 nYielded, cur, inHandler, handled, mqtt_messages, exitCode>>

\* async for msg in client.messages raises MqttError (transport error,
\* broker disconnect)
StreamError ==
  /\ mpc = "await_msg"
  /\ OnMqttError
  /\ UNCHANGED nonMqttVars
  /\ UNCHANGED <<cfgTopics, cfgTopic, lastConnect, session, now, mqtt_connect_time,
                 nYielded, cur, inHandler, handled, mqtt_messages, exitCode>>

\* msg.timestamp = time.monotonic()
Stamp ==
  /\ mpc = "stamp"
  /\ cur' = [cur EXCEPT !.timestamp = now]
  /\ mpc' = "parse"
  /\ UNCHANGED nonMqttVars
  /\ UNCHANGED <<cfgTopics, cfgTopic, lastConnect, session, subIdx, subs, timer, now,
                 mqtt_connect_time, nYielded, inHandler, handled,
                 mqtt_messages, exitCode>>

\* packet, meta = self.parser.parseMQTT(msg) returns;
\* await self.handler.handle_packet(packet=packet, meta=meta) is entered
ParseOk ==
  /\ mpc = "parse"
  /\ cur.decodes
  /\ handled' = Append(handled, cur)
  /\ inHandler' = inHandler \cup {cur.id}
  /\ mpc' = "handle"
  /\ UNCHANGED nonMqttVars
  /\ UNCHANGED <<cfgTopics, cfgTopic, lastConnect, session, subIdx, subs, timer, now,
                 mqtt_connect_time, nYielded, cur, mqtt_messages, exitCode>>

\* self.parser.parseMQTT(msg) raises: process_mqtt_msg and connect() have no
\* handler for it, and it is no aiomqtt.MqttError, so it leaves the while
\* loop and ends the task
ParseRaise ==
  /\ mpc = "parse"
  /\ ~cur.decodes
  /\ mpc' = "crashed"
  /\ subs' = <<>>
  /\ UNCHANGED nonMqttVars
  /\ UNCHANGED <<cfgTopics, cfgTopic, lastConnect, session, subIdx, timer, now,
                 mqtt_connect_time, nYielded, cur, inHandler, handled,
                 mqtt_messages, exitCode>>

\* handle_packet returns, having mutated the Store
HandleReturn ==
  /\ mpc = "handle"
  /\ mqtt_messages' = Append(mqtt_messages, cur.id)
  /\ inHandler' = inHandler \ {cur.id}
  /\ mpc' = "await_msg"
  /\ UNCHANGED nonMqttVars
  /\ UNCHANGED <<cfgTopics, cfgTopic, lastConnect, session, subIdx, subs, timer, now,
                 mqtt_connect_time, nYielded, cur, handled, exitCode>>

\* one time unit of the pending asyncio.sleep(5) passes
SleepTick ==
  /\ mpc = "backoff"
  /\ timer > 0
  /\ timer' = timer - 1
  /\ now' = ClockAfterUnit
  /\ UNCHANGED nonMqttVars
  /\ UNCHANGED <<cfgTopics, cfgTopic, lastConnect, mpc, session, subIdx, subs,
                 mqtt_connect_time, nYielded, cur, inHandler, handled,
                 mqtt_messages, exitCode>>

\* asyncio.sleep(5) returns; the while True loop starts over
Wake ==
  /\ mpc = "backoff"
  /\ timer = 0
  /\ mpc' = "connect"
  /\ UNCHANGED nonMqttVars
  /\ UNCHANGED <<cfgTopics, cfgTopic, lastConnect, session, subIdx, subs, timer, now,
                 mqtt_connect_time, nYielded, cur, inHandler, handled,
                 mqtt_messages, exitCode>>

\* time passes while the task is suspended on the connection or the stream
Tick ==
  /\ mpc \in {"connect", "await_msg"}
  /\ now < MaxClock
  /\ now' = now + 1
  /\ UNCHANGED nonMqttVars
  /\ UNCHANGED <<cfgTopics, cfgTopic, lastConnect, mpc, session, subIdx, subs, timer,
                 mqtt_connect_time, nYielded, cur, inHandler, handled,
                 mqtt_messages, exitCode>>

NextMqtt ==
  \/ HandlerStart
  \/ ConnectOk
  \/ ConnectFail
  \/ SubscribeList
  \/ SubscribeListDone
  \/ SubscribeSingle
  \/ SubscribeError
  \/ NoTopics
  \/ SetConnectTime
  \/ Yield
  \/ StreamError
  \/ Stamp
  \/ ParseOk
  \/ ParseRaise
  \/ HandleReturn
  \/ SleepTick
  \/ Wake
  \/ Tick

(***************************************************************************)
(* The Store: node ids and JSON values                                     *)
(*                                                                         *)
(* A Python str is a tuple of one-character strings, a dict the sequence   *)
(* of its items [k, v] in insertion order.                                 *)
(***************************************************************************)
\* the characters of the ids and keys of the model, in ASCII order
AsciiOrder ==
  <<"!", "0", "1", "2", "3", "4", "5", "6", "7", "8", "9",
    "a", "b", "c", "d", "e", "f", "g", "h", "i", "j", "k", "l", "m",
    "n", "o", "p", "q", "r", "s", "t", "u", "v", "w", "x", "y", "z">>

Ord(c) == CHOOSE i \in 1..Len(AsciiOrder) : AsciiOrder[i] = c

HexChars == {"0", "1", "2", "3", "4", "5", "6", "7", "8", "9",
             "a", "b", "c", "d", "e", "f"}

\* str < str of Python: lexicographic by code point
RECURSIVE StrLess(_, _)
StrLess(a, b) ==
  IF b = <<>> THEN FALSE
  ELSE IF a = <<>> THEN TRUE
  ELSE IF Head(a) = Head(b) THEN StrLess(Tail(a), Tail(b))
  ELSE Ord(Head(a)) < Ord(Head(b))

\* id.startswith('!')
StartsWithSigil(id) == Len(id) > 0 /\ Head(id) = "!"

\* id.replace('!', ''): every '!' is removed, wherever it stands
RECURSIVE RemoveSigils(_)
RemoveSigils(id) ==
  IF id = <<>> THEN <<>>
  ELSE IF Head(id) = "!" THEN RemoveSigils(Tail(id))
  ELSE <<Head(id)>> \o RemoveSigils(Tail(id))

\* raw node ids a Store may hold
Id_Sigil8Hex   == <<"!", "1", "a", "2", "b", "3", "c", "4", "d">>
Id_Plain8Hex   == <<"5", "e", "6", "f", "7", "0", "8", "1">>
Id_Short6Hex   == <<"a", "b", "c", "1", "2", "3">>
Id_8NotHex     == <<"z", "z", "z", "z", "z", "z", "z", "z">>
Id_InnerSigil  == <<"1", "a", "2", "b", "!", "3", "c", "4", "d">>

\* the nodes a Store may hold: the node dict of the decoder, with the
\* fields the exporter and the projector read
NodePool ==
  { [id |-> Id_Sigil8Hex,  shortname |-> <<"n", "4">>],
    [id |-> Id_Plain8Hex,  shortname |-> <<"n", "1">>],
    [id |-> Id_Short6Hex,  shortname |-> <<"n", "3">>],
    [id |-> Id_8NotHex,    shortname |-> <<"n", "2">>],
    [id |-> Id_InnerSigil, shortname |-> <<"n", "0">>] }

\* data.nodes: dicts of at most MaxNodes nodes keyed by their raw id, in
\* every insertion order
NodeDicts ==
  UNION { { d \in [1..n -> [k : {nd.id : nd \in NodePool}, v : NodePool]] :
              /\ \A i \in 1..n : d[i].k = d[i].v.id
              /\ \A i, j \in 1..n : i # j => d[i].k # d[j].k }
          : n \in 0..MaxNodes }

\* the chat messages that arrive on channel "0", in order
ChatFeed == [i \in 1..MaxChat |-> <<"m", AsciiOrder[i + 1]>>]

\* JSON values
Atom(x) == [t |-> "atom", v |-> x, items |-> <<>>]
List(xs) == [t |-> "list", v |-> <<>>, items |-> xs]
Dict(kvs) == [t |-> "dict", v |-> <<>>, items |-> kvs]

K_channels  == <<"c", "h", "a", "n", "n", "e", "l", "s">>
K_messages  == <<"m", "e", "s", "s", "a", "g", "e", "s">>
K_id        == <<"i", "d">>
K_shortname == <<"s", "h", "o", "r", "t", "n", "a", "m", "e">>

\* a node dict as a JSON value
NodeValue(node) ==
  Dict(<< [k |-> K_shortname, v |-> Atom(node.shortname)],
          [k |-> K_id,        v |-> Atom(node.id)] >>)

\* self.data.chat: {'channels': {'0': {'messages': [...]}, ...}}
ChatValue ==
  Dict(<< [k |-> K_channels,
           v |-> Dict([i \in 1..Len(chat) |->
                        [k |-> chat[i].k,
                         v |-> Dict(<< [k |-> K_messages,
                                        v |-> List([j \in 1..Len(chat[i].v) |->
                                                      Atom(chat[i].v[j])])] >>)]])] >>)

\* the index of the item with the least key (the keys of a dict differ)
MinKeyIndex(kvs) ==
  CHOOSE i \in 1..Len(kvs) :
    \A j \in 1..Len(kvs) : j # i => StrLess(kvs[i].k, kvs[j].k)

RemoveAt(xs, i) == [j \in 1..(Len(xs) - 1) |-> IF j < i THEN xs[j] ELSE xs[j + 1]]

\* sorted(dct.items()): the items by ascending key
RECURSIVE SortedItems(_)
SortedItems(kvs) ==
  IF kvs = <<>> THEN <<>>
  ELSE LET i == MinKeyIndex(kvs)
       IN <<kvs[i]>> \o SortedItems(RemoveAt(kvs, i))

\* mutant of DictItems: json.dump without sort_keys=True
DictItems_Unsorted(kvs) == kvs

\* the order json.dump(..., sort_keys=True) emits the items of a dict in
DictItems(kvs) == SortedItems(kvs)

\* the chunks json.dump(data, f, indent=2, sort_keys=True) writes, in order
RECURSIVE JsonDump(_)
JsonDump(val) ==
  LET RECURSIVE DumpList(_)
      DumpList(xs) ==
        IF xs = <<>> THEN <<>> ELSE JsonDump(Head(xs)) \o DumpList(Tail(xs))
      RECURSIVE DumpItems(_)
      DumpItems(kvs) ==
        IF kvs = <<>> THEN <<>>
        ELSE <<Head(kvs).k>> \o JsonDump(Head(kvs).v) \o DumpItems(Tail(kvs))
  IN CASE val.t = "atom" -> <<val.v>>
       [] val.t = "list" -> <<(<<"[">>)>> \o DumpList(val.items) \o <<(<<"]">>)>>
       [] val.t = "dict" ->
            <<(<<"{">>)>> \o DumpItems(DictItems(val.items)) \o <<(<<"}">>)>>

(***************************************************************************)
(* DataRenderer (src/data_renderer.py)                                     *)
(***************************************************************************)
\* the files _render saves, in its order
ExportFiles == <<"chat.json", "nodes.json", "telemetry.json", "traceroutes.json">>
ExportNames == {ExportFiles[i] : i \in 1..Len(ExportFiles)}

NoFile == [exists |-> FALSE, content |-> <<>>]
File(content) == [exists |-> TRUE, content |-> content]

\* nodes[id] = node on the dict under construction
DictSet(kvs, key, val) ==
  IF \E i \in 1..Len(kvs) : kvs[i].k = key
    THEN [i \in 1..Len(kvs) |-> IF kvs[i].k = key THEN [k |-> key, v |-> val] ELSE kvs[i]]
    ELSE Append(kvs, [k |-> key, v |-> val])

\* not (len(id) != 8)
KeepsId(id) == Len(id) = ID_LEN

\* the loop of _render over data.nodes.items() that builds `nodes`
RECURSIVE FilterNodes(_, _)
FilterNodes(kvs, acc) ==
  IF kvs = <<>> THEN acc
  ELSE LET raw == Head(kvs).k
           id == IF StartsWithSigil(raw) THEN RemoveSigils(raw) ELSE raw
       IN IF KeepsId(id)
            THEN FilterNodes(Tail(kvs), DictSet(acc, id, Head(kvs).v))
            ELSE FilterNodes(Tail(kvs), acc)

ExportedNodes == FilterNodes(nodes, <<>>)

\* the data argument of the save_file call for ExportFiles[i]
ExportData(i) ==
  CASE i = 1 -> ChatValue
    [] i = 2 -> Dict([j \in 1..Len(enodes) |->
                       [k |-> enodes[j].k, v |-> NodeValue(enodes[j].v)]])
    [] i = 3 -> List([j \in 1..Len(telemetry) |-> Atom(telemetry[j])])
    [] i = 4 -> List([j \in 1..Len(traceroutes) |-> Atom(traceroutes[j])])

\* the data of a save as a mapping, whatever the insertion order of dicts
RECURSIVE Mapping(_)
Mapping(val) ==
  CASE val.t = "atom" -> <<"atom", val.v>>
    [] val.t = "list" -> <<"list", [j \in 1..Len(val.items) |-> Mapping(val.items[j])]>>
    [] val.t = "dict" ->
         <<"dict", {<<val.items[j].k, Mapping(val.items[j].v)>> : j \in 1..Len(val.items)}>>

CurName == ExportFiles[efile]

InitStore ==
  /\ nodes = <<>>
  /\ chat = << [k |-> <<"0">>, v |-> <<>>] >>
  /\ telemetry = <<>>
  /\ traceroutes = <<>>
  /\ messages = <<>>

InitExportIdle ==
  /\ epc = "idle"
  /\ efile = 1
  /\ enodes = <<>>
  /\ ewritten = 0
  /\ eerror = "none"
  /\ final = [n \in ExportNames |-> NoFile]
  /\ swp = [n \in ExportNames |-> NoFile]
  /\ epass = 0
  /\ prevFinal = NoFile
  /\ lastDump = [n \in ExportNames |-> NoFile]
  /\ lastData = [n \in ExportNames |-> <<>>]
  /\ efaults = 0

\* DataRenderer.render(): a pass of _render begins with save_file("chat.json")
ExportStart ==
  /\ epc \in {"idle", "done", "raised"}
  /\ epass < MaxPasses
  /\ epass' = epass + 1
  /\ epc' = "open"
  /\ efile' = 1
  /\ enodes' = <<>>
  /\ ewritten' = 0
  /\ eerror' = "none"
  /\ UNCHANGED <<final, swp, prevFinal, lastDump, lastData, efaults>>
  /\ UNCHANGED <<mqttVars, storeVars, renderVars, viewVars, pubVars>>

\* mutant of SaveOpen: the data file itself is opened for writing
SaveOpen_InPlace ==
  /\ epc = "open"
  /\ prevFinal' = final[CurName]
  /\ final' = [final EXCEPT ![CurName] = File(<<>>)]
  /\ swp' = [swp EXCEPT ![CurName] = File(<<>>)]
  /\ ewritten' = 0
  /\ epc' = "dump"
  /\ UNCHANGED <<efile, enodes, eerror, epass, lastDump, lastData, efaults>>
  /\ UNCHANGED <<mqttVars, storeVars, renderVars, viewVars, pubVars>>

\* open(f"{data}/{filename}.swp", "w"): the .swp file is created or truncated
SaveOpen ==
  /\ epc = "open"
  /\ prevFinal' = final[CurName]
  /\ swp' = [swp EXCEPT ![CurName] = File(<<>>)]
  /\ ewritten' = 0
  /\ epc' = "dump"
  /\ UNCHANGED <<efile, enodes, eerror, final, epass, lastDump, lastData, efaults>>
  /\ UNCHANGED <<mqttVars, storeVars, renderVars, viewVars, pubVars>>

\* open(...) raises (OSError): nothing is written
OpenRaise ==
  /\ epc = "open"
  /\ efaults < MaxExportFaults
  /\ efaults' = efaults + 1
  /\ prevFinal' = final[CurName]
  /\ eerror' = "open"
  /\ epc' = "raised"
  /\ UNCHANGED <<efile, enodes, ewritten, final, swp, epass, lastDump, lastData>>
  /\ UNCHANGED <<mqttVars, storeVars, renderVars, viewVars, pubVars>>

\* json.dump writes its next chunk to the .swp file
DumpChunk ==
  /\ epc = "dump"
  /\ ewritten < Len(JsonDump(ExportData(efile)))
  /\ swp' = [swp EXCEPT ![CurName] =
               File(Append(@.content, JsonDump(ExportData(efile))[ewritten + 1]))]
  /\ ewritten' = ewritten + 1
  /\ UNCHANGED <<epc, efile, enodes, eerror, final, epass, prevFinal, lastDump,
                 lastData, efaults>>
  /\ UNCHANGED <<mqttVars, storeVars, renderVars, viewVars, pubVars>>

\* mutant of DumpRaise: save_file catches the error and carries on
DumpRaise_Swallowed ==
  /\ epc = "dump"
  /\ efaults < MaxExportFaults
  /\ efaults' = efaults + 1
  /\ eerror' = "dump"
  /\ epc' = "replace"
  /\ UNCHANGED <<efile, enodes, ewritten, final, swp, epass, prevFinal, lastDump, lastData>>
  /\ UNCHANGED <<mqttVars, storeVars, renderVars, viewVars, pubVars>>

\* json.dump or the write (or the flush of the closing file) raises: the
\* with block closes the file and the exception leaves save_file and _render
DumpRaise ==
  /\ epc = "dump"
  /\ efaults < MaxExportFaults
  /\ efaults' = efaults + 1
  /\ eerror' = "dump"
  /\ epc' = "raised"
  /\ UNCHANGED <<efile, enodes, ewritten, final, swp, epass, prevFinal, lastDump, lastData>>
  /\ UNCHANGED <<mqttVars, storeVars, renderVars, viewVars, pubVars>>

\* json.dump has returned and the with block closes the .swp file
DumpDone ==
  /\ epc = "dump"
  /\ ewritten = Len(JsonDump(ExportData(efile)))
  /\ epc' = "replace"
  /\ UNCHANGED <<efile, enodes, ewritten, eerror, final, swp, epass, prevFinal,
                 lastDump, lastData, efaults>>
  /\ UNCHANGED <<mqttVars, storeVars, renderVars, viewVars, pubVars>>

\* os.replace(swp, final); back in _render the count is logged and, after
\* chat.json, the dict `nodes` is built for the next save_file
SaveReplace ==
  /\ epc = "replace"
  /\ final' = [final EXCEPT ![CurName] = swp[CurName]]
  /\ swp' = [swp EXCEPT ![CurName] = NoFile]
  /\ lastDump' = [lastDump EXCEPT ![CurName] = swp[CurName]]
  /\ lastData' = [lastData EXCEPT ![CurName] = <<Mapping(ExportData(efile))>>]
  /\ enodes' = IF efile = 1 THEN ExportedNodes ELSE enodes
  /\ IF efile < Len(ExportFiles)
       THEN efile' = efile + 1 /\ epc' = "open"
       ELSE efile' = efile /\ epc' = "done"
  /\ UNCHANGED <<ewritten, eerror, epass, prevFinal, efaults>>
  /\ UNCHANGED <<mqttVars, storeVars, renderVars, viewVars, pubVars>>

\* os.replace raises (OSError): the final path is left as it was
ReplaceRaise ==
  /\ epc = "replace"
  /\ efaults < MaxExportFaults
  /\ efaults' = efaults + 1
  /\ eerror' = "replace"
  /\ epc' = "raised"
  /\ UNCHANGED <<efile, enodes, ewritten, final, swp, epass, prevFinal, lastDump, lastData>>
  /\ UNCHANGED <<mqttVars, storeVars, renderVars, viewVars, pubVars>>

\* sorted(self.data.nodes.items(), key=shortname): a stable sort
RECURSIVE SortedByShortname(_)
SortedByShortname(kvs) ==
  IF kvs = <<>> THEN <<>>
  ELSE LET i == CHOOSE i \in 1..Len(kvs) :
                  \A j \in 1..Len(kvs) :
                    j # i => \/ StrLess(kvs[i].v.shortname, kvs[j].v.shortname)
                             \/ kvs[i].v.shortname = kvs[j].v.shortname /\ i < j
       IN <<kvs[i]>> \o SortedByShortname(RemoveAt(kvs, i))

\* MQTT.sort_nodes_by_shortname, between two passes of the exporter
SortNodes ==
  /\ epc \in {"done", "raised"}
  /\ epass < MaxPasses
  /\ nodes' = SortedByShortname(nodes)
  /\ nodes' # nodes
  /\ UNCHANGED <<chat, telemetry, traceroutes, messages>>
  /\ UNCHANGED <<mqttVars, exportVars, renderVars, viewVars, pubVars>>

\* the handler appends a chat message to channel "0", between two passes
AppendChat ==
  /\ epc \in {"done", "raised"}
  /\ epass < MaxPasses
  /\ Len(chat[1].v) < MaxChat
  /\ chat' = [chat EXCEPT ![1].v = Append(@, ChatFeed[Len(@) + 1])]
  /\ UNCHANGED <<nodes, telemetry, traceroutes, messages>>
  /\ UNCHANGED <<mqttVars, exportVars, renderVars, viewVars, pubVars>>

NextExport ==
  \/ ExportStart
  \/ SaveOpen
  \/ OpenRaise
  \/ DumpChunk
  \/ DumpRaise
  \/ DumpDone
  \/ SaveReplace
  \/ ReplaceRaise
  \/ SortNodes
  \/ AppendChat

\* a Store the exporter may find: any node dict, a chat log, and logs of
\* telemetry and traceroutes
InitExportStore ==
  /\ nodes \in NodeDicts
  /\ chat = << [k |-> <<"0">>, v |-> <<>>] >>
  /\ telemetry = << <<"t", "1">> >>
  /\ traceroutes = << <<"r", "1">> >>
  /\ messages = <<>>

(***************************************************************************)
(* StaticHTMLRenderer (src/static_html_renderer.py)                        *)
(***************************************************************************)
\* the tuple of render methods _render loops over
Builders ==
  <<"render_index", "render_chat", "render_graph", "render_map",
    "render_mesh_log", "render_mqtt_log", "render_neighbors",
    "render_nodes_each", "render_nodes", "render_routes", "render_stats",
    "render_telemetry", "render_traceroutes">>

\* the file each render method hands to render_html_and_save
PageOf(method) ==
  CASE method = "render_index"       -> "index.html"
    [] method = "render_chat"        -> "chat.html"
    [] method = "render_graph"       -> "graph.html"
    [] method = "render_map"         -> "map.html"
    [] method = "render_mesh_log"    -> "mesh_log.html"
    [] method = "render_mqtt_log"    -> "mqtt_log.html"
    [] method = "render_neighbors"   -> "neighbors.html"
    [] method = "render_nodes"       -> "nodes.html"
    [] method = "render_routes"      -> "routes.html"
    [] method = "render_stats"       -> "stats.html"
    [] method = "render_telemetry"   -> "telemetry.html"
    [] method = "render_traceroutes" -> "traceroutes.html"

\* self.data.nodes[config['server']['node_id']] raises KeyError
ServerNodeMissing == \A i \in 1..Len(nodes) : nodes[i].k # cfgServerNode

\* the render method raises before it writes, whatever the templates do:
\* render_map looks the server node up
RaisesOnData(method) == method = "render_map" /\ ServerNodeMissing

InitRenderIdle ==
  /\ rpc = "idle"
  /\ rb = 1
  /\ rnodeIdx = 0
  /\ rinvoked = <<>>
  /\ rerrors = <<>>
  /\ rlogged = <<>>
  /\ pages = {}
  /\ nodePages = {}
  /\ rfaults = 0
  /\ riterUsed = 0

\* StaticHTMLRenderer.render(): _render starts its for loop
RenderStart ==
  /\ rpc = "idle"
  /\ rpc' = "build"
  /\ rb' = 1
  /\ UNCHANGED <<cfgServerNode, riterUsed, rnodeIdx, rinvoked, rerrors, rlogged, pages,
                 nodePages, rfaults>>
  /\ UNCHANGED <<mqttVars, storeVars, exportVars, viewVars, pubVars>>

\* the for loop goes on with the next render method, or ends and _render
\* returns after logging.debug("Done rendering static HTML files")
AfterBuilder ==
  /\ rb' = rb + 1
  /\ rpc' = IF rb < Len(Builders) THEN "build" ELSE "done"

\* mutant of OnBuilderError: _render without the try/except
OnBuilderError_Propagates ==
  /\ rerrors' = Append(rerrors, Builders[rb])
  /\ rlogged' = rlogged
  /\ rb' = rb
  /\ rpc' = "raised"

\* except Exception as e: logging.error(f"Problem with {name}: ..."); the
\* loop goes on
OnBuilderError ==
  /\ rerrors' = Append(rerrors, Builders[rb])
  /\ rlogged' = Append(rlogged, Builders[rb])
  /\ AfterBuilder

\* a render method other than render_nodes_each is called, its template
\* renders and save_file writes the page
BuilderSaves ==
  /\ rpc = "build"
  /\ Builders[rb] # "render_nodes_each"
  /\ ~RaisesOnData(Builders[rb])
  /\ rinvoked' = Append(rinvoked, Builders[rb])
  /\ pages' = pages \cup {PageOf(Builders[rb])}
  /\ AfterBuilder
  /\ UNCHANGED <<cfgServerNode, riterUsed, rnodeIdx, rerrors, rlogged, nodePages, rfaults>>
  /\ UNCHANGED <<mqttVars, storeVars, exportVars, viewVars, pubVars>>

\* a render method is called and template.render raises: render_html logs
\* the error and returns None, and render_html_and_save writes nothing
BuilderSkips ==
  /\ rpc = "build"
  /\ Builders[rb] # "render_nodes_each"
  /\ ~RaisesOnData(Builders[rb])
  /\ rfaults < MaxFaults
  /\ rfaults' = rfaults + 1
  /\ rinvoked' = Append(rinvoked, Builders[rb])
  /\ AfterBuilder
  /\ UNCHANGED <<cfgServerNode, riterUsed, rnodeIdx, rerrors, rlogged, pages, nodePages>>
  /\ UNCHANGED <<mqttVars, storeVars, exportVars, viewVars, pubVars>>

\* a render method is called and raises: on its data, or because
\* env.get_template or save_file raises
BuilderRaises ==
  /\ rpc = "build"
  /\ Builders[rb] # "render_nodes_each"
  /\ \/ RaisesOnData(Builders[rb]) /\ rfaults' = rfaults
     \/ ~RaisesOnData(Builders[rb]) /\ rfaults < MaxFaults /\ rfaults' = rfaults + 1
  /\ rinvoked' = Append(rinvoked, Builders[rb])
  /\ OnBuilderError
  /\ UNCHANGED <<cfgServerNode, riterUsed, rnodeIdx, pages, nodePages>>
  /\ UNCHANGED <<mqttVars, storeVars, exportVars, viewVars, pubVars>>

\* render_nodes_each is called: its loop over data.nodes.items() starts
NodesEachEnter ==
  /\ rpc = "build"
  /\ Builders[rb] = "render_nodes_each"
  /\ rinvoked' = Append(rinvoked, Builders[rb])
  /\ rnodeIdx' = 0
  /\ rpc' = "nodes_each"
  /\ riterUsed' = Len(nodes)
  /\ UNCHANGED <<cfgServerNode, rb, rerrors, rlogged, pages, nodePages, rfaults>>
  /\ UNCHANGED <<mqttVars, storeVars, exportVars, viewVars, pubVars>>

\* id = id.replace('!', ''): the id in the name of the node's page
PageId(key) == RemoveSigils(key)

\* _serialize_node(node) raises KeyError on
\* self.data.nodes[config["server"]["node_id"]]
SerializeRaises == ServerNodeMissing

\* the dict iterator of data.nodes.items() finds that the dict has changed
\* size since the loop began: its next step raises RuntimeError
IterDisturbed == Len(nodes) # riterUsed

\* the next node is serialized and node_<id>.html is rendered and written
NodePageSaves ==
  /\ rpc = "nodes_each"
  /\ ~IterDisturbed
  /\ rnodeIdx < Len(nodes)
  /\ ~SerializeRaises
  /\ nodePages' = nodePages \cup {PageId(nodes[rnodeIdx + 1].k)}
  /\ rnodeIdx' = rnodeIdx + 1
  /\ UNCHANGED <<cfgServerNode, riterUsed, rpc, rb, rinvoked, rerrors, rlogged, pages, rfaults>>
  /\ UNCHANGED <<mqttVars, storeVars, exportVars, viewVars, pubVars>>

\* the next node is serialized, template.render raises and render_html
\* returns None: no page is written for the node, the loop goes on
NodePageSkips ==
  /\ rpc = "nodes_each"
  /\ ~IterDisturbed
  /\ rnodeIdx < Len(nodes)
  /\ ~SerializeRaises
  /\ rfaults < MaxFaults
  /\ rfaults' = rfaults + 1
  /\ rnodeIdx' = rnodeIdx + 1
  /\ UNCHANGED <<cfgServerNode, riterUsed, rpc, rb, rinvoked, rerrors, rlogged, pages, nodePages>>
  /\ UNCHANGED <<mqttVars, storeVars, exportVars, viewVars, pubVars>>

\* the iterator, _serialize_node, env.get_template or save_file raises for
\* the next node: the exception leaves the loop and render_nodes_each
NodePageRaises ==
  /\ rpc = "nodes_each"
  /\ \/ IterDisturbed /\ rfaults' = rfaults
     \/ /\ ~IterDisturbed
        /\ rnodeIdx < Len(nodes)
        /\ \/ SerializeRaises /\ rfaults' = rfaults
           \/ ~SerializeRaises /\ rfaults < MaxFaults /\ rfaults' = rfaults + 1
  /\ OnBuilderError
  /\ UNCHANGED <<cfgServerNode, riterUsed, rnodeIdx, rinvoked, pages, nodePages>>
  /\ UNCHANGED <<mqttVars, storeVars, exportVars, viewVars, pubVars>>

\* the loop of render_nodes_each is exhausted and the method returns
NodesEachDone ==
  /\ rpc = "nodes_each"
  /\ ~IterDisturbed
  /\ rnodeIdx = Len(nodes)
  /\ AfterBuilder
  /\ UNCHANGED <<cfgServerNode, riterUsed, rnodeIdx, rinvoked, rerrors, rlogged, pages,
                 nodePages, rfaults>>
  /\ UNCHANGED <<mqttVars, storeVars, exportVars, viewVars, pubVars>>

NextRender ==
  \/ RenderStart
  \/ BuilderSaves
  \/ BuilderSkips
  \/ BuilderRaises
  \/ NodesEachEnter
  \/ NodePageSaves
  \/ NodePageSkips
  \/ NodePageRaises
  \/ NodesEachDone

(***************************************************************************)
(* The view models of StaticHTMLRenderer (src/static_html_renderer.py)     *)
(*                                                                         *)
(* A node dict carries, next to id and shortname, the keys the projector   *)
(* reads: 'active' (optional), 'position' and 'neighborinfo' (None or a    *)
(* dict).  A position dict is the set of its keys and the values of        *)
(* latitude_i and longitude_i.                                             *)
(***************************************************************************)
\* position["latitude_i"] / 10000000
SCALE == 10000000

K_lat_i == "latitude_i"
K_lon_i == "longitude_i"
K_lat   == "latitude"
K_lon   == "longitude"

PosNone  == [isNone |-> TRUE,  keys |-> {}, latitude_i |-> 0, longitude_i |-> 0]
PosNoFix == [isNone |-> FALSE, keys |-> {"altitude"}, latitude_i |-> 0, longitude_i |-> 0]
PosAt(lat, lon) ==
  [isNone |-> FALSE, keys |-> {K_lat_i, K_lon_i}, latitude_i |-> lat, longitude_i |-> lon]

\* the positions a node of the Store may have: none, a dict without
\* coordinates, zero coordinates, one zero coordinate, a fix
PositionValues == {PosNone, PosNoFix, PosAt(0, 0), PosAt(0, 7), PosAt(5, 7)}

\* node['active']: the key is absent, or its value is False or True
ActiveValues == {"absent", "False", "True"}

\* the node numbers a neighbor entry may carry: 0x5e6f7081, the number of
\* Id_Plain8Hex, and 0x0000abcd, the number of a node the Store never held
NUM_Plain8Hex == 1584361601
NUM_Unknown == 43981

NiNone == [isNone |-> TRUE, neighbors |-> <<>>]
NiOf(ns) == [isNone |-> FALSE, neighbors |-> ns]

\* the neighborinfo of a node that heard both
NiBoth == NiOf(<< [node_id |-> NUM_Plain8Hex, snr |-> 6],
                  [node_id |-> NUM_Unknown, snr |-> 2] >>)

\* the nodes the Store of the projector may hold, per id
ViewNodePool ==
  LET Of(id, sn, nis) ==
        { [id |-> id, shortname |-> sn, active |-> a, position |-> p,
           neighborinfo |-> ni] :
            a \in ActiveValues, p \in PositionValues, ni \in nis }
  IN Of(Id_Sigil8Hex, <<"n", "4">>, {NiNone, NiBoth})
       \cup Of(Id_Plain8Hex, <<"n", "1">>, {NiNone})
       \cup { nd \in Of(Id_Short6Hex, <<"n", "3">>, {NiNone}) :
                 nd.position = PosAt(5, 7) }

\* data.nodes of the projector: at most MaxNodes nodes keyed by their raw
\* id, in every insertion order
ViewNodeDicts ==
  UNION { { [i \in 1..n |-> [k |-> nds[i].id, v |-> nds[i]]] :
              nds \in { f \in [1..n -> ViewNodePool] :
                          \A i, j \in 1..n : i # j => f[i].id # f[j].id } }
          : n \in 0..MaxNodes }

\* the truth value Python gives node["position"]: None and the empty dict
\* are false
PositionTruthy(position) == ~position.isNone /\ position.keys # {}

\* the truth value Python gives node['neighborinfo']
NeighborinfoTruthy(ni) == ~ni.isNone

\* mutant of IsActive: the key is tested, its value is not
IsActive_AnyFlag(node) == node.active # "absent"

\* 'active' in node and node['active']
IsActive(node) == node.active = "True"

\* 'latitude_i' in position and 'longitude_i' in position
HasCoords(position) == K_lat_i \in position.keys /\ K_lon_i \in position.keys

\* key in self.data.nodes
InNodes(key) == \E i \in 1..Len(nodes) : nodes[i].k = key

\* self.data.nodes[key], for a key that is in the dict
NodeAt(key) == nodes[CHOOSE i \in 1..Len(nodes) : nodes[i].k = key].v

\* utils.convert_node_id_from_int_to_hex: the number as 8 hex digits
RECURSIVE IntToHex(_, _)
IntToHex(n, width) ==
  IF width = 0 THEN <<>>
  ELSE IntToHex(n \div 16, width - 1)
         \o << <<"0", "1", "2", "3", "4", "5", "6", "7", "8", "9",
                 "a", "b", "c", "d", "e", "f">>[(n % 16) + 1] >>

convert_node_id_from_int_to_hex(n) == IntToHex(n, ID_LEN)

\* the arguments of geo.distance_between_two_points(lat1, lon1, lat2, lon2),
\* each coordinate divided by 10000000; the result stands for round(.., 2)
\* of what the geo collaborator returns for them
Degrees(x) == [num |-> x, den |-> SCALE]

distance_between_two_points(a, b) ==
  << Degrees(a.latitude_i), Degrees(a.longitude_i),
     Degrees(b.latitude_i), Degrees(b.longitude_i) >>

NoDistance == <<>>

\* mutant of PositionCopy: s_position = position, without the copy
PositionCopy_Alias(position) == [obj |-> position, shared |-> TRUE]

\* s_position = position.copy(): a new dict with the items of position;
\* shared tells whether the dict written to is the one in the Store
PositionCopy(position) == [obj |-> position, shared |-> FALSE]

\* StaticHTMLRenderer._serialize_position
SerializePosition(position) ==
  LET s_position == PositionCopy(position)
  IN IF HasCoords(position)
       THEN [s_position EXCEPT !.obj.keys = @ \cup {K_lat, K_lon}]
       ELSE s_position

\* the test of _serialize_neighborinfo_neighbors before it attaches the
\* distance to a neighbor that is in the Store
NeighborDistanceTest(from_node, ni) ==
  /\ PositionTruthy(from_node.position)
  /\ PositionTruthy(ni.position)
  /\ HasCoords(from_node.position)
  /\ HasCoords(ni.position)

\* StaticHTMLRenderer._serialize_neighborinfo_neighbors
SerializeNeighbors(node) ==
  LET from_node == NodeAt(node.id)
      One(n) ==
        LET id == convert_node_id_from_int_to_hex(n.node_id)
            attach == InNodes(id) /\ NeighborDistanceTest(from_node, NodeAt(id))
        IN [node_id |-> id, snr |-> n.snr, has_distance |-> attach,
            distance |-> IF attach
                           THEN distance_between_two_points(from_node.position,
                                                            NodeAt(id).position)
                           ELSE NoDistance]
  IN [j \in 1..Len(node.neighborinfo.neighbors) |-> One(node.neighborinfo.neighbors[j])]

\* the tests of _serialize_node before it attaches distance_from_host_node
HostDistanceTest(server_node, node) ==
  /\ PositionTruthy(server_node.position) /\ HasCoords(server_node.position)
  /\ PositionTruthy(node.position) /\ HasCoords(node.position)
  /\ server_node.position.latitude_i # 0
  /\ server_node.position.longitude_i # 0
  /\ node.position.latitude_i # 0
  /\ node.position.longitude_i # 0

\* result = node.copy()
NodeCopy(node) == [obj |-> node, shared |-> FALSE]

\* StaticHTMLRenderer._serialize_node(node, simplified=...): what it returns,
\* or raised when self.data.nodes[server node id] raises KeyError (the
\* fields then hold what it had built by then); posShared and nodeShared
\* tell whether its writes went to dicts of the Store
SerializeNode(node, simplified) ==
  LET pos == IF PositionTruthy(node.position)
               THEN SerializePosition(node.position)
               ELSE [obj |-> PosNone, shared |-> FALSE]
      neighbors == IF NeighborinfoTruthy(node.neighborinfo)
                     THEN SerializeNeighbors(node)
                     ELSE <<>>
      raised == ~InNodes(cfgServerNode)
      attach == ~raised /\ HostDistanceTest(NodeAt(cfgServerNode), node)
  IN [raised |-> raised,
      id |-> RemoveSigils(node.id),
      active |-> node.active,
      position |-> pos.obj,
      neighborinfo |-> [isNone |-> ~NeighborinfoTruthy(node.neighborinfo),
                        neighbors |-> neighbors],
      has_distance |-> attach,
      distance |-> IF attach
                     THEN distance_between_two_points(node.position,
                                                      NodeAt(cfgServerNode).position)
                     ELSE NoDistance,
      posShared |-> pos.shared,
      nodeShared |-> ~raised /\ ~simplified /\ NodeCopy(node).shared]

\* the node dict of the Store after _serialize_node has built r from it:
\* a write to a dict that is shared with the Store shows in the Store
NodeAfterSerialize(node, r) ==
  LET n1 == IF r.posShared THEN [node EXCEPT !.position = r.position] ELSE node
  IN IF r.nodeShared
       THEN [n1 EXCEPT !.id = r.id, !.position = r.position,
                       !.neighborinfo = r.neighborinfo]
       ELSE n1

\* data.nodes after _serialize_node was called, with the given value of
\* simplified, for the nodes that sel selects
StoreAfterSerialize(sel, simplified) ==
  [i \in 1..Len(nodes) |->
     IF i \in sel
       THEN [k |-> nodes[i].k,
             v |-> NodeAfterSerialize(nodes[i].v, SerializeNode(nodes[i].v, simplified))]
       ELSE nodes[i]]

\* the keys of a dict, in its order
Keys(kvs) == [i \in 1..Len(kvs) |-> kvs[i].k]

\* the items of data.nodes whose node passes the test, in the dict's order
ItemsWhere(kvs, sel) ==
  LET upTo[n \in 0..Len(kvs)] ==
        IF n = 0 THEN <<>>
        ELSE IF n \in sel THEN Append(upTo[n - 1], kvs[n]) ELSE upTo[n - 1]
  IN  upTo[Len(kvs)]

\* self.data.chat['channels']['0'] exists
HasChannelZero == \E i \in 1..Len(chat) : chat[i].k = <<"0">>

\* self.data.chat['channels']['0']['messages']
ChannelZeroMessages == chat[CHOOSE i \in 1..Len(chat) : chat[i].k = <<"0">>].v

\* the loop of render_stats: stats['active_nodes'] += 1 per active node
RECURSIVE CountActive(_)
CountActive(kvs) ==
  IF kvs = <<>> THEN 0
  ELSE (IF IsActive(Head(kvs).v) THEN 1 ELSE 0) + CountActive(Tail(kvs))

NoStats ==
  [active_nodes |-> 0, total_chat |-> 0, total_nodes |-> 0, total_messages |-> 0,
   total_mqtt_messages |-> 0, total_telemetry |-> 0, total_traceroutes |-> 0]

\* the dict stats of render_stats
Stats ==
  [active_nodes |-> CountActive(nodes),
   total_chat |-> Len(ChannelZeroMessages),
   total_nodes |-> Len(nodes),
   total_messages |-> Len(messages),
   total_mqtt_messages |-> Len(mqtt_messages),
   total_telemetry |-> Len(telemetry),
   total_traceroutes |-> Len(traceroutes)]

\* what a render method builds: the page, whether the method raised before
\* it reached render_html_and_save, the keys of the active-node dict it
\* hands over, the nodes it serialized, and the stats
View(page, raised, active, ser, stats) ==
  [page |-> page, raised |-> raised, active_nodes |-> active,
   serialized |-> ser, stats |-> stats]

\* no render method has built a view model yet
NoView == View("none", FALSE, <<>>, <<>>, NoStats)

\* render_index: active_nodes=self.data.nodes
IndexView == View("index.html", FALSE, Keys(nodes), <<>>, NoStats)

\* render_routes: active_nodes=self.data.nodes
RoutesView == View("routes.html", FALSE, Keys(nodes), <<>>, NoStats)

\* the filter of render_neighbors
ActiveWithNeighbors(node) == IsActive(node) /\ NeighborinfoTruthy(node.neighborinfo)

\* the view of a render method that serializes the nodes passing a filter
FilteredView(page, chosen) ==
  LET sel == ItemsWhere(nodes, chosen)
      ser == [i \in 1..Len(sel) |-> SerializeNode(sel[i].v, TRUE)]
  IN View(page, \E i \in 1..Len(ser) : ser[i].raised, Keys(sel), ser, NoStats)

\* render_neighbors: active_nodes_with_neighbors
NeighborsView == FilteredView("neighbors.html", {i \in 1..Len(nodes) : ActiveWithNeighbors(nodes[i].v)})

\* render_nodes: active_nodes
NodesView == FilteredView("nodes.html", {i \in 1..Len(nodes) : IsActive(nodes[i].v)})

\* render_stats
StatsView ==
  IF HasChannelZero
    THEN View("stats.html", FALSE, <<>>, <<>>, Stats)
    ELSE View("stats.html", TRUE, <<>>, <<>>, NoStats)

\* render_nodes_each, for the i-th node of data.nodes:
\* node=self._serialize_node(node, simplified=False)
NodeEachView(i) ==
  LET r == SerializeNode(nodes[i].v, FALSE)
  IN View("node.html", r.raised, <<>>, <<r>>, NoStats)

InitViewIdle == view = NoView

\* a render method that serializes no node builds its view model
BuildPlainView ==
  /\ \E v \in {IndexView, RoutesView, StatsView} : view' = v
  /\ UNCHANGED <<mqttVars, storeVars, exportVars, renderVars, pubVars>>

\* render_neighbors builds its view model
BuildNeighborsView ==
  /\ view' = NeighborsView
  /\ nodes' = StoreAfterSerialize({i \in 1..Len(nodes) : ActiveWithNeighbors(nodes[i].v)}, TRUE)
  /\ UNCHANGED <<chat, telemetry, traceroutes, messages>>
  /\ UNCHANGED <<mqttVars, exportVars, renderVars, pubVars>>

\* render_nodes builds its view model
BuildNodesView ==
  /\ view' = NodesView
  /\ nodes' = StoreAfterSerialize({i \in 1..Len(nodes) : IsActive(nodes[i].v)}, TRUE)
  /\ UNCHANGED <<chat, telemetry, traceroutes, messages>>
  /\ UNCHANGED <<mqttVars, exportVars, renderVars, pubVars>>

\* render_nodes_each builds the view model of one node's page
BuildNodeEachView ==
  /\ \E i \in 1..Len(nodes) :
       /\ view' = NodeEachView(i)
       /\ nodes' = StoreAfterSerialize({i}, FALSE)
  /\ UNCHANGED <<chat, telemetry, traceroutes, messages>>
  /\ UNCHANGED <<mqttVars, exportVars, renderVars, pubVars>>

\* DataRenderer._render builds its dict `nodes`: nodes[id] = node puts the
\* node dicts of the Store under their new keys and writes to none of them
BuildExportNodes ==
  /\ enodes' = ExportedNodes
  /\ nodes' = nodes
  /\ UNCHANGED <<chat, telemetry, traceroutes, messages>>
  /\ UNCHANGED <<epc, efile, ewritten, eerror, final, swp, epass, prevFinal,
                 lastDump, lastData, efaults>>
  /\ UNCHANGED <<mqttVars, renderVars, viewVars, pubVars>>

NextView ==
  \/ BuildPlainView
  \/ BuildNeighborsView
  \/ BuildNodesView
  \/ BuildNodeEachView
  \/ BuildExportNodes

(***************************************************************************)
(* MQTT.publish (src/mqtt.py:90-98)                                        *)
(***************************************************************************)
\* a call of publish: where it stands, what it returned and what it logged
Pub(state, topic, result, logged) ==
  [state |-> state, topic |-> topic, result |-> result, logged |-> logged]

\* MQTT.publish has not been called
PubIdle == Pub("idle", "none", "none", "none")

InitPubIdle == pub = PubIdle

\* a caller calls publish(client, topic, msg), which awaits
\* client.publish(topic, msg)
PublishCall ==
  /\ pub.state # "awaiting"
  /\ \E t \in {"t1", "t2"} : pub' = Pub("awaiting", t, "none", "none")
  /\ UNCHANGED <<mqttVars, storeVars, exportVars, renderVars, viewVars>>

\* client.publish returns a result with status 0: logging.info, return True
PublishOk ==
  /\ pub.state = "awaiting"
  /\ pub' = Pub("returned", pub.topic, "True", "info")
  /\ UNCHANGED <<mqttVars, storeVars, exportVars, renderVars, viewVars>>

\* client.publish returns a result with another status: logging.warning,
\* return False
PublishFailed ==
  /\ pub.state = "awaiting"
  /\ pub' = Pub("returned", pub.topic, "False", "warning")
  /\ UNCHANGED <<mqttVars, storeVars, exportVars, renderVars, viewVars>>

\* await client.publish(topic, msg) raises (aiomqtt.MqttError: the client
\* is disconnected, the broker refuses); publish has no try/except, so the
\* exception reaches the caller and nothing is logged
PublishRaises ==
  /\ pub.state = "awaiting"
  /\ pub' = Pub("raised", pub.topic, "none", "none")
  /\ UNCHANGED <<mqttVars, storeVars, exportVars, renderVars, viewVars>>

NextPublish ==
  \/ NextMqtt
  \/ PublishCall
  \/ PublishOk
  \/ PublishFailed
  \/ PublishRaises

\* the node ids config['server']['node_id'] may name
ServerNodeValues == {Id_Plain8Hex, Id_Short6Hex}

(***************************************************************************)
(* Specifications                                                          *)
(***************************************************************************)
\* the ingestion loop, over every configuration of the topics
Init ==
  /\ InitMqtt /\ InitStore /\ InitExportIdle /\ InitRenderIdle
  /\ InitViewIdle /\ InitPubIdle
  /\ cfgServerNode = Id_Plain8Hex

Next == NextMqtt

Spec == Init /\ [][Next]_vars

\* the configuration of the exporter's and the projector's process
InitMqttIdle ==
  /\ InitMqtt
  /\ cfgTopics = [kind |-> "list", items |-> <<"t1">>]
  /\ cfgTopic = [kind |-> "absent"]

\* passes of the exporter over a Store
\* the exporter tells ids apart by their leading sigil and their length only:
\* Id_Short6Hex stands for the ids it drops for their length, Id_8NotHex for
\* the ids of length 8 without a sigil
ExportInit ==
  /\ InitMqttIdle /\ InitExportStore /\ InitExportIdle /\ InitRenderIdle
  /\ InitViewIdle /\ InitPubIdle
  /\ \A i \in 1..Len(nodes) : nodes[i].k \notin {Id_InnerSigil, Id_Plain8Hex}
  /\ cfgServerNode = Id_Plain8Hex

ExportSpec == ExportInit /\ [][NextExport]_vars

\* a pass of the projector over a Store
RenderInit ==
  /\ InitMqttIdle /\ InitExportStore /\ InitExportIdle /\ InitRenderIdle
  /\ InitViewIdle /\ InitPubIdle
  /\ cfgServerNode \in ServerNodeValues

RenderSpec == RenderInit /\ [][NextRender]_vars

\* the process when k messages have been handled in its first session and
\* the task awaits the next one
MqttAfter(k) ==
  /\ cfgTopics = [kind |-> "list", items |-> <<"t1">>]
  /\ cfgTopic = [kind |-> "absent"]
  /\ mpc = "await_msg"
  /\ session = 1
  /\ subIdx = 1
  /\ subs = <<"t1">>
  /\ timer = 0
  /\ now = 0
  /\ mqtt_connect_time = 0
  /\ nYielded = k
  /\ handled = [i \in 1..k |-> [id |-> i, session |-> 1, timestamp |-> 0, decodes |-> TRUE]]
  /\ cur = IF k = 0 THEN NoMsg ELSE handled[k]
  /\ inHandler = {}
  /\ mqtt_messages = [i \in 1..k |-> i]
  /\ exitCode = -1
  /\ lastConnect = 0

\* the empty Store before any message, and the Store once MaxMsgs messages
\* have been handled: all but the first were mesh messages, MaxChat of them
\* chat messages on channel "0"
InitViewStore ==
  \/ /\ MqttAfter(0)
     /\ InitStore
  \/ /\ MqttAfter(MaxMsgs)
     /\ nodes \in ViewNodeDicts
     /\ chat = << [k |-> <<"0">>, v |-> ChatFeed] >>
     /\ messages = [i \in 1..(MaxMsgs - 1) |-> i + 1]
     /\ telemetry = << <<"t", "1">>, <<"t", "2">> >>
     /\ traceroutes = << <<"r", "1">> >>

\* the view models of the projector, over the Stores it may find
ViewInit ==
  /\ InitViewStore
  /\ InitExportIdle /\ InitRenderIdle /\ InitViewIdle /\ InitPubIdle
  /\ cfgServerNode = Id_Plain8Hex

ViewSpec == ViewInit /\ [][NextView]_vars

\* the ingestion loop together with the callers of publish
PublishSpec == Init /\ [][NextPublish]_vars

\* the node the k-th message of the stream is about: handle_packet creates
\* the node of a packet the first time it sees its id
MsgNode(k) ==
  LET order == <<Id_Plain8Hex, Id_Sigil8Hex, Id_Short6Hex, Id_8NotHex,
                 Id_InnerSigil>>
  IN  CHOOSE nd \in NodePool : nd.id = order[((k - 1) % Len(order)) + 1]

\* handle_packet, on the event loop, inserts the node of the message it
\* handles into data.nodes; it returns, and the message is logged, later
HandleInsertNode ==
  /\ mpc = "handle"
  /\ Len(nodes) < MaxNodes
  /\ ~InNodes(MsgNode(cur.id).id)
  /\ nodes' = Append(nodes, [k |-> MsgNode(cur.id).id, v |-> MsgNode(cur.id)])
  /\ UNCHANGED <<chat, telemetry, traceroutes, messages>>
  /\ UNCHANGED <<mqttVars, exportVars, renderVars, viewVars, pubVars>>

\* await asyncio.to_thread(self._render): the pass of the projector runs on
\* a worker thread while the event loop goes on with the ingestion task;
\* no lock is taken on either side, so the steps of the two interleave
NextConcurrent ==
  \/ HandlerStart
  \/ ConnectOk
  \/ SubscribeList
  \/ SubscribeListDone
  \/ SetConnectTime
  \/ Yield
  \/ Stamp
  \/ ParseOk
  \/ ParseRaise
  \/ HandleInsertNode
  \/ HandleReturn
  \/ RenderStart
  \/ BuilderSaves
  \/ BuilderSkips
  \/ BuilderRaises
  \/ NodesEachEnter
  \/ NodePageSaves
  \/ NodePageSkips
  \/ NodePageRaises
  \/ NodesEachDone

ConcurrentInit ==
  /\ InitMqttIdle /\ InitStore /\ InitExportIdle /\ InitRenderIdle
  /\ InitViewIdle /\ InitPubIdle
  /\ cfgServerNode = Id_Plain8Hex

ConcurrentSpec == ConcurrentInit /\ [][NextConcurrent]_vars

\* the asyncio event loop runs every step of the task that is ready, and a
\* connection attempt ends one way or the other; whether it succeeds and
\* what the stream does is the broker's choice and gets no fairness
FairSpec ==
  /\ Init
  /\ [][Next]_vars
  /\ WF_vars(HandlerStart)
  /\ WF_vars(ConnectOk \/ ConnectFail)
  /\ WF_vars(SubscribeList \/ SubscribeListDone \/ SubscribeSingle \/ NoTopics)
  /\ WF_vars(SetConnectTime)
  /\ WF_vars(Stamp)
  /\ WF_vars(ParseOk \/ ParseRaise)
  /\ WF_vars(HandleReturn)
  /\ WF_vars(SleepTick)
  /\ WF_vars(Wake)
(***************************************************************************)
(* Properties of the ingestion loop                                        *)
(***************************************************************************)
\* how often message m was handed to handler.handle_packet
TimesHanded(m) == Cardinality({i \in 1..Len(handled) : handled[i].id = m})

\* message m is the one in hand and has not reached the handler yet
BeforeHandler(m) == cur.id = m /\ mpc \in {"stamp", "parse"}

\* the decoder rejected message m (it is then the last one taken)
Undecodable(m) == cur.id = m /\ ~cur.decodes

\* C1: across connect failures, transport errors and reconnects, no message
\* the stream yielded is handed to the packet handler twice, and every
\* message that decodes is handed to it exactly once as soon as its
\* dispatch step has run, whichever session it was received in.
C1_ExactlyOnce ==
  \A m \in 1..nYielded :
    /\ TimesHanded(m) <= 1
    /\ (~BeforeHandler(m) /\ ~Undecodable(m)) => TimesHanded(m) = 1

\* C1 witness: after a transport error and a reconnect, a message of the
\* second session has been dispatched after one of the first session.
C1_Witness ==
  /\ Len(handled) >= 2
  /\ handled[1].session = 1
  /\ handled[2].session = 2
  /\ mpc = "await_msg"

\* C2: every entry into the backoff sets the wait to the same 5 time units;
\* the wait only counts down, ends only when the 5 units have passed, and
\* ends in a new connect attempt; the loop never ends from the backoff, and
\* every backoff is eventually followed by a connect attempt.
C2_FixedBackoffRetry ==
  /\ [][(mpc # "backoff" /\ mpc' = "backoff") => timer' = 5]_vars
  /\ [][mpc = "backoff" =>
          \/ mpc' = "backoff" /\ timer' \in {timer, timer - 1}
          \/ mpc' = "connect" /\ timer = 0]_vars
  /\ [][mpc' \in {"exited", "crashed"} =>
          mpc \in {"subscribe", "parse", "exited", "crashed"}]_vars
  /\ [](mpc = "backoff" => <>(mpc = "connect"))

\* C2 witness: a new connect attempt is made after a session that streamed
\* messages was lost and the backoff has run out.
C2_Witness ==
  /\ mpc = "connect"
  /\ session >= 1
  /\ nYielded >= 1
  /\ timer = 0

\* C3 (the claim as stated): a decode failure drops the message and the
\* loop stays in the same session, awaiting the next message.
C3_DecodeFailureContinues ==
  [][(mpc = "parse" /\ ~cur.decodes) =>
       (mpc' = "await_msg" /\ session' = session /\ handled' = handled)]_vars

\* neither broker.topics is a list nor broker.topic a str
NoValidTopic == ~TopicsIsList /\ ~TopicIsStr

\* C4 (the claim as stated): without a valid topic the process ends with a
\* non-zero status and stays ended, and no message is ever dispatched.
C4_NoTopicIsFatal ==
  NoValidTopic =>
    /\ <>[](mpc = "exited" /\ exitCode > 0)
    /\ [](handled = <<>>)

\* C5: within a session messages are handled one at a time in receipt
\* order: a message reaches the handler with its receipt timestamp set,
\* at most one message is in the handler, and when the next message is
\* taken the handler has returned and the Store holds its mutation.
C5_Sequential ==
  /\ Cardinality(inHandler) <= 1
  /\ \A i \in 1..Len(handled) :
       /\ handled[i].timestamp # Unset
       /\ \A j \in 1..Len(handled) :
            i < j => /\ handled[i].id < handled[j].id
                     /\ handled[i].timestamp <= handled[j].timestamp
  /\ mpc \in {"stamp", "parse", "await_msg"} =>
       /\ inHandler = {}
       /\ mqtt_messages = [i \in 1..Len(handled) |-> handled[i].id]
  /\ mpc = "handle" =>
       /\ inHandler = {cur.id}
       /\ handled[Len(handled)] = cur
       /\ mqtt_messages = [i \in 1..(Len(handled) - 1) |-> handled[i].id]

\* C5 witness: the second message of one session is in the handler after
\* the first one was handled.
C5_Witness ==
  /\ mpc = "handle"
  /\ Len(handled) >= 2
  /\ handled[1].session = handled[2].session
  /\ Len(mqtt_messages) = 1
(***************************************************************************)
(* Properties of the snapshot exporter                                     *)
(***************************************************************************)
Openers == {<<"{">>, <<"[">>}
Closers == {<<"}">>, <<"]">>}

\* open brackets left after the first n chunks of a file
Depth(c, n) ==
  Cardinality({i \in 1..n : c[i] \in Openers})
    - Cardinality({i \in 1..n : c[i] \in Closers})

\* the content is one whole JSON document: its brackets close at its end
\* and not before
Complete(c) ==
  /\ Len(c) >= 2
  /\ Depth(c, Len(c)) = 0
  /\ \A n \in 1..(Len(c) - 1) : Depth(c, n) > 0

\* C6: at every moment of an export the file at the final path is absent
\* or one whole document, and while and after save_file works on a file
\* that file is the previous one or the new complete serialization; the
\* final path changes only in the replace step, which puts the completely
\* written .swp file there.
C6_AtomicExport ==
  /\ [](\A n \in ExportNames : final[n].exists => Complete(final[n].content))
  /\ [](epc \in {"dump", "replace", "raised"} =>
          \/ final[CurName] = prevFinal
          \/ final[CurName] = File(JsonDump(ExportData(efile))))
  /\ [][final' # final =>
          /\ epc = "replace"
          /\ final'[CurName] = File(JsonDump(ExportData(efile)))
          /\ final'[CurName] = swp[CurName]
          /\ \A n \in ExportNames \ {CurName} : final'[n] = final[n]]_vars

\* C6 witness: the write of a new, different chat.json broke off part-way
\* in a second pass and the previous chat.json is still in place.
C6_Witness ==
  /\ epc = "raised"
  /\ eerror = "dump"
  /\ prevFinal.exists
  /\ final[CurName] = prevFinal
  /\ prevFinal.content # JsonDump(ExportData(efile))
  /\ swp[CurName].exists
  /\ Len(swp[CurName].content) > 0
  /\ Len(swp[CurName].content) < Len(JsonDump(ExportData(efile)))

\* C7: when a call of save_file fails, the exception has left save_file
\* and _render (the pass has stopped and raised to its caller), the .swp
\* file was not moved to the final path, and the final path holds what it
\* held before.
C7_FailureSurfaces ==
  eerror # "none" =>
    /\ epc = "raised"
    /\ final[CurName] = prevFinal
    /\ eerror = "dump" => swp[CurName].exists

\* C7 witness: json.dump failed after writing part of nodes.json.swp over
\* an existing nodes.json.
C7_Witness ==
  /\ eerror = "dump"
  /\ efile = 2
  /\ ewritten > 0
  /\ prevFinal.exists

\* the dicts with the items of a dict in every insertion order
Reordered(val) ==
  IF val.t = "dict"
    THEN {Dict([i \in 1..Len(val.items) |-> val.items[f[i]]]) :
            f \in Permutations(1..Len(val.items))}
    ELSE {val}

\* the keys of the outermost dict of a document, in the order they stand
RECURSIVE TopKeys(_, _, _)
TopKeys(toks, depth, wantKey) ==
  IF toks = <<>> THEN <<>>
  ELSE LET t == Head(toks)
       IN CASE t \in Openers -> TopKeys(Tail(toks), depth + 1, FALSE)
            [] t \in Closers -> TopKeys(Tail(toks), depth - 1, depth = 2)
            [] depth = 1 /\ wantKey -> <<t>> \o TopKeys(Tail(toks), depth, FALSE)
            [] OTHER -> TopKeys(Tail(toks), depth, depth = 1)

KeysOf(c) == IF c # <<>> /\ c[1] = <<"{">> THEN TopKeys(Tail(c), 1, TRUE) ELSE <<>>

Ascending(keys) == \A i \in 1..(Len(keys) - 1) : StrLess(keys[i], keys[i + 1])

\* a save completes: the replace is done and _render moves on
SaveCompletes == epc = "replace" /\ epc' # "replace" /\ eerror' = "none"

\* C8: the file a completed save leaves is the same for every insertion
\* order of the saved mapping, its keys stand in ascending order, and it
\* equals the file of the previous completed save of the same name when
\* the data of both saves is the same mapping.
C8_Deterministic ==
  [][SaveCompletes =>
       /\ \A d \in Reordered(ExportData(efile)) :
            final'[CurName].content = JsonDump(d)
       /\ Ascending(KeysOf(final'[CurName].content))
       /\ lastData[CurName] = <<Mapping(ExportData(efile))>> =>
            final'[CurName] = lastDump[CurName]]_vars

\* C8 witness: nodes.json has been saved a second time from a node dict
\* whose insertion order is not the key order, with the same result.
C8_Witness ==
  /\ epass = 2
  /\ efile > 2
  /\ Len(enodes) >= 2
  /\ ~Ascending([i \in 1..Len(enodes) |-> enodes[i].k])
  /\ final["nodes.json"] = lastDump["nodes.json"]
  /\ final["nodes.json"].exists
(***************************************************************************)
(* Properties of the exported and rendered node set                        *)
(***************************************************************************)
\* canonicalization as specified: a leading sigil is stripped
Canonical(raw) == IF StartsWithSigil(raw) THEN Tail(raw) ELSE raw

\* exactly 8 hexadecimal characters
Is8Hex(id) == Len(id) = 8 /\ \A i \in 1..Len(id) : id[i] \in HexChars

\* the dict `nodes` of the exporter holds the node under its canonical id
Exported(kv) ==
  \E j \in 1..Len(enodes) : enodes[j].k = Canonical(kv.k) /\ enodes[j].v = kv.v

\* C9 (the claim as stated): once the exporter has built its node set, and
\* once a pass of the projector in which nothing failed is done, a node of
\* the Store is in the exported node set, and has its page, if and only if
\* its canonical id is exactly 8 hexadecimal characters.
C9_RetainedIffValid ==
  /\ efile > 1 =>
       \A i \in 1..Len(nodes) :
         Exported(nodes[i]) <=> Is8Hex(Canonical(nodes[i].k))
  /\ (rpc = "done" /\ rerrors = <<>> /\ rfaults = 0) =>
       \A i \in 1..Len(nodes) :
         (Canonical(nodes[i].k) \in nodePages) <=> Is8Hex(Canonical(nodes[i].k))

(***************************************************************************)
(* Properties of the render pass                                           *)
(***************************************************************************)
\* the page builders in the order the specification fixes: index, chat,
\* graph, map, mesh-log, mqtt-log, neighbors, per-node pages, node-list,
\* routes, stats, telemetry, traceroutes
FixedOrder ==
  <<"render_index", "render_chat", "render_graph", "render_map",
    "render_mesh_log", "render_mqtt_log", "render_neighbors",
    "render_nodes_each", "render_nodes", "render_routes", "render_stats",
    "render_telemetry", "render_traceroutes">>

\* C10: in a render pass the builders are invoked one after the other in
\* the fixed order, each once, whether or not earlier ones raised; every
\* error raised is logged; the pass never raises, and when it is done all
\* 13 builders have been invoked.
C10_AllBuildersRun ==
  /\ rpc # "raised"
  /\ Len(rinvoked) <= 13
  /\ rinvoked = SubSeq(FixedOrder, 1, Len(rinvoked))
  /\ rpc = "build" => Len(rinvoked) = rb - 1
  /\ rpc = "done" => rinvoked = FixedOrder
  /\ rlogged = rerrors

\* C10 witness: a pass is done in which the graph builder and another one
\* raised and the stats and telemetry pages were written all the same.
C10_Witness ==
  /\ rpc = "done"
  /\ Len(rinvoked) = 13
  /\ Len(rlogged) >= 2
  /\ \E i \in 1..Len(rlogged) : rlogged[i] = "render_graph"
  /\ {"stats.html", "telemetry.html"} \subseteq pages
  /\ "graph.html" \notin pages
(***************************************************************************)
(* Properties of the view models                                           *)
(***************************************************************************)
\* the pages whose template is given an active-node set
ActiveViewPages == {"index.html", "neighbors.html", "nodes.html", "routes.html"}

\* the node carries an explicit active flag whose value is true
CarriesTrueFlag(node) == node.active = "True"

\* C11 (the claim as stated): in the view model of index, neighbors,
\* node-list and routes, every node of the active-node set carries an
\* active flag that is true.
C11_ActiveViewsOnlyActive ==
  (view.page \in ActiveViewPages /\ ~view.raised) =>
    \A i \in 1..Len(view.active_nodes) :
      CarriesTrueFlag(NodeAt(view.active_nodes[i]))

\* C12: the stats view reports the number of chat messages on channel "0",
\* the number of nodes, the lengths of the message, mqtt message, telemetry
\* and traceroute logs, and as active_nodes the number of nodes whose
\* active flag is present and true, which lies between 0 and total_nodes.
C12_StatsCounts ==
  (view.page = "stats.html" /\ ~view.raised) =>
    /\ \E i \in 1..Len(chat) :
         chat[i].k = <<"0">> /\ view.stats.total_chat = Len(chat[i].v)
    /\ view.stats.total_nodes = Len(nodes)
    /\ view.stats.total_messages = Len(messages)
    /\ view.stats.total_mqtt_messages = Len(mqtt_messages)
    /\ view.stats.total_telemetry = Len(telemetry)
    /\ view.stats.total_traceroutes = Len(traceroutes)
    /\ view.stats.active_nodes =
         Cardinality({i \in 1..Len(nodes) : CarriesTrueFlag(nodes[i].v)})
    /\ view.stats.active_nodes >= 0
    /\ view.stats.active_nodes <= view.stats.total_nodes

\* C12 witness: the stats view of a Store with two nodes, one of them with
\* a false flag and one active, and logs of different lengths.
C12_Witness ==
  /\ view.page = "stats.html"
  /\ ~view.raised
  /\ view.stats.total_nodes = 2
  /\ view.stats.active_nodes = 1
  /\ \E i \in 1..Len(nodes) : nodes[i].v.active = "False"
  /\ view.stats.total_chat = MaxChat
  /\ view.stats.total_mqtt_messages = MaxMsgs
  /\ view.stats.total_messages = MaxMsgs - 1
  /\ view.stats.total_telemetry = 2
  /\ view.stats.total_traceroutes = 1

\* a position with non-zero latitude and longitude
UsableFix(position) ==
  /\ ~position.isNone
  /\ HasCoords(position)
  /\ position.latitude_i # 0
  /\ position.longitude_i # 0

\* the position of the server node; absent when the Store has no such node
ServerPosition ==
  IF InNodes(cfgServerNode) THEN NodeAt(cfgServerNode).position ELSE PosNone

\* C13 (the claim as stated): every call of _serialize_node returns the
\* view model of its node, with the distance from the host attached exactly
\* when the server node and the node both have a position with non-zero
\* latitude and longitude.
C13_DistanceFromHost ==
  \A i \in 1..Len(view.serialized) :
    /\ ~view.serialized[i].raised
    /\ view.serialized[i].has_distance <=>
         (UsableFix(ServerPosition) /\ UsableFix(view.serialized[i].position))

\* C15: no step of the projector building a view model, and no step of the
\* exporter building its node dict, changes the Store: the nodes with
\* their positions and neighbor-info, the chat, the telemetry, traceroute
\* and message logs stay as they are.
C15_StoreUnchanged ==
  [][/\ nodes' = nodes
     /\ chat' = chat
     /\ telemetry' = telemetry
     /\ traceroutes' = traceroutes
     /\ messages' = messages
     /\ mqtt_messages' = mqtt_messages]_vars

\* C15 witness: the exporter has built its node dict and the page of the
\* node "!1a2b3c4d" was serialized with a stripped id, decimal coordinates
\* and a distance, while the node in the Store has none of them.
C15_Witness ==
  /\ enodes # <<>>
  /\ view.page = "node.html"
  /\ ~view.raised
  /\ view.serialized[1].id = RemoveSigils(Id_Sigil8Hex)
  /\ K_lat \in view.serialized[1].position.keys
  /\ view.serialized[1].has_distance
  /\ InNodes(Id_Sigil8Hex)
  /\ NodeAt(Id_Sigil8Hex).id = Id_Sigil8Hex
  /\ K_lat \notin NodeAt(Id_Sigil8Hex).position.keys

\* C17 (the claim as stated): in a serialized node, a neighbor that is in
\* the Store has the distance attached only when the node and the neighbor
\* both have a position with non-zero latitude and longitude.
C17_NeighborDistance ==
  \A i \in 1..Len(view.serialized) :
    ~view.serialized[i].raised =>
      \A j \in 1..Len(view.serialized[i].neighborinfo.neighbors) :
        LET nb == view.serialized[i].neighborinfo.neighbors[j]
        IN (InNodes(nb.node_id) /\ nb.has_distance) =>
             /\ UsableFix(view.serialized[i].position)
             /\ UsableFix(NodeAt(nb.node_id).position)

(***************************************************************************)
(* Properties of the outbound side channel                                 *)
(***************************************************************************)
\* C14 (the claim as stated): a call of publish never raises to its
\* caller; it returns True or False, and a failure is logged.
C14_PublishNeverRaises ==
  /\ pub.state # "raised"
  /\ pub.state = "returned" =>
       /\ pub.result \in {"True", "False"}
       /\ pub.result = "False" => pub.logged = "warning"

(***************************************************************************)
(* Properties of the per-node pages                                        *)
(***************************************************************************)
\* C18 (the claim as stated): when a pass is done in which the page of one
\* node failed, for a reason of that node's page alone (the server node is
\* in the Store), the nodes that come after it in data.nodes have their
\* pages written in that pass.
C18_PerNodeIsolation ==
  (/\ rpc = "done"
   /\ ~SerializeRaises
   /\ \E i \in 1..Len(rerrors) : rerrors[i] = "render_nodes_each") =>
    \A i \in (rnodeIdx + 2)..Len(nodes) : PageId(nodes[i].k) \in nodePages

(***************************************************************************)
(* Properties of the session                                               *)
(***************************************************************************)
\* C19 (the claim as stated): once a connection to the broker has been
\* made and the loop streams, or the connection is lost again,
\* mqtt_connect_time is set and is not older than that latest connection.
C19_ConnectTimeIsLatest ==
  (/\ session > 0
   /\ mpc \in {"await_msg", "stamp", "parse", "handle", "backoff", "connect"}) =>
    /\ mqtt_connect_time # Unset
    /\ mqtt_connect_time >= lastConnect

\* the topics the configuration names
ConfiguredTopics ==
  (IF cfgTopics.kind = "list"
     THEN {cfgTopics.items[i] : i \in 1..Len(cfgTopics.items)}
     ELSE {})
    \cup (IF cfgTopic.kind = "str" THEN {"topic"} ELSE {})

\* C20 (the claim as stated): while the loop streams, the client has at
\* least one subscription and is subscribed to every configured topic.
C20_StreamsSubscribed ==
  mpc \in {"await_msg", "stamp", "parse", "handle"} =>
    /\ Len(subs) >= 1
    /\ ConfiguredTopics \subseteq {subs[i] : i \in 1..Len(subs)}
(***************************************************************************)
(* Properties of the projector's thread beside the ingestion loop          *)
(***************************************************************************)
\* handle_packet has inserted the node of the message it handles and has
\* not returned: the Store is in the middle of a message
MidMessage == mpc = "handle" /\ InNodes(MsgNode(cur.id).id)

\* C16: a render pass never observes a partial Store mutation: no step of
\* the pass on its worker thread reads the Store in the middle of a handled
\* message, and while render_nodes_each iterates the node collection no
\* node is inserted into it
C16_NoPartialMutationObserved ==
  /\ [][renderVars' # renderVars => ~MidMessage]_vars
  /\ [](rpc = "nodes_each" => ~IterDisturbed)

====
